---- MODULE Spec2Model ----
(***************************************************************************)
(* Model of seismic/cluster/cluster.py: the gather command's batch loop    *)
(* (process_many_events, process_event), the sort (dedup) and match        *)
(* commands over csv files, and the block indexer _find_block.             *)
(*                                                                         *)
(* A csv file is a header line (a sequence of column names, <<>> when the  *)
(* file has none) and a sequence of lines, each a sequence of cells.       *)
(* A DataFrame is its column names, its records (index label and cells)    *)
(* and a flag, text, that is TRUE when the header line of the file was     *)
(* read as a data row, so that the columns hold strings.                   *)
(* observed_tt values are integers; a median is carried as twice its       *)
(* value (median2), so that the mean of two central values stays integral. *)
(***************************************************************************)
EXTENDS Integers, Sequences, FiniteSets, TLC

VARIABLES
    output_file,     \* gather's two output files, by wave class "P" / "S"
    sorted_file,     \* the outcome of sort on each of them
    resorted_file,   \* the outcome of sort on the sorted P file
    matched_p_file,  \* the outcomes of match
    matched_s_file,
    cur_call,        \* the last call of _find_block: inputs, locals, result
    prev_call,       \* the call before it
    round_mode,      \* the interpreter's round(): "half_even" or "half_away"
    events,          \* the catalogue process_many_events iterates
    stations,        \* the station lookup, by station code
    wave_type,       \* the --wave_type option
    batch,           \* process_many_events: position, loop index, handles
    row_source,      \* per sink, the event and arrival each row came from
    buffers,         \* per event, the rows a worker extracted for it
    inventory        \* the two station sources gather merges

gather_vars == <<events, stations, wave_type, batch, row_source, buffers,
                 inventory>>

vars == <<output_file, sorted_file, resorted_file, matched_p_file,
          matched_s_file, cur_call, prev_call, round_mode, gather_vars>>

----------------------------------------------------------------------------
(* Bounds of the model *)

MaxRows == 4
MaxMatchRows == 3
MaxMatchRowsS == 2
MaxPipeRows == 2
MaxBatch == 5
MaxWorkerBatch == 3
MaxStationRows == 2

MaxOrderRows == 3

----------------------------------------------------------------------------
(* Rows and files *)

column_names ==
    <<"source_block", "station_block", "residual", "event_number",
      "source_longitude", "source_latitude", "source_depth",
      "station_longitude", "station_latitude", "observed_tt",
      "locations2degrees", "P_or_S">>

\* The position of column name in the list cols.
Col(cols, name) == CHOOSE i \in 1..Len(cols) : cols[i] = name

WaveClasses == {"P", "S"}

\* phase_type == 1 if P and 2 if S
PhaseCode(c) == IF c = "P" THEN 1 ELSE 2

\* The row process_event writes; the fields no stage reads are fixed.
MkRow(sb, stb, tt, res, c) ==
    <<sb, stb, res, 0, 0, 0, 0, 0, 0, tt, 0, PhaseCode(c)>>

\* The (source_block, station_block) pairs and travel times of the rows.
BlockPairs == {<<1, 1>>, <<1, 2>>, <<2, 1>>}

TravelTimes == {1, 2, 3}

RowSet(c) ==
    {MkRow(k[1], k[2], tt, 0, c) : k \in BlockPairs, tt \in TravelTimes}

\* Rows for match: three keys, and two rows of key (1,2) that differ in
\* their residual.
MatchPairs == {<<1, 1>>, <<1, 2>>, <<2, 2>>}

MatchRowSet(c) ==
    {MkRow(k[1], k[2], 1, 0, c) : k \in MatchPairs} \cup {MkRow(1, 2, 1, 1, c)}

\* Rows for the whole pipeline.
PipeRowSet(c) ==
    {MkRow(1, stb, tt, 0, c) : stb \in {1, 2}, tt \in {1, 2}}

\* Rows for the order of the gathered file: rows of key (1,1) that differ in
\* their travel time or their residual, and a row of key (1,2).
OrderRowSet ==
    {MkRow(1, 1, tt, res, "P") : tt \in {1, 2}, res \in {0, 1}}
        \cup {MkRow(1, 2, 1, 0, "P")}

SeqsUpTo(S, n) == UNION {[1..m -> S] : m \in 0..n}

NoHeader == <<>>

EmptyFile == [header |-> NoHeader, lines |-> <<>>]

\* Files without a header, 12 cells a line, as gather and match write them.
PlainFiles(rows, n) ==
    {[header |-> NoHeader, lines |-> l] : l \in SeqsUpTo(rows, n)}

\* Files with a header line and a leading index cell, as sort writes them.
IndexedFiles(rows, n) ==
    {[header |-> <<"">> \o column_names,
      lines |-> [i \in 1..Len(l) |-> <<i - 1>> \o l[i]]] :
        l \in SeqsUpTo(rows, n)}

NotRun == [status |-> "none", file |-> EmptyFile]

\* A command that raised wrote no file.
Raised == [status |-> "error", file |-> EmptyFile]

Written(f) == [status |-> "ok", file |-> f]

----------------------------------------------------------------------------
(* pandas, as sort and match use it *)

Key(cols, row) ==
    <<row[Col(cols, "source_block")], row[Col(cols, "station_block")]>>

\* the order by station_block, then source_block
KeyLess_StationFirst(a, b) == a[2] < b[2] \/ (a[2] = b[2] /\ a[1] < b[1])

\* the order of by=['source_block', 'station_block']
KeyLess(a, b) == a[1] < b[1] \/ (a[1] = b[1] /\ a[2] < b[2])

\* pd.read_csv(output_file, header=None, names=column_names): every line of
\* the file is data, the header line of a file that has one included; cells
\* in excess of the 12 names lead the line and become the index.
read_csv_names(f) ==
    LET width == IF f.lines = <<>> THEN Len(column_names) ELSE Len(f.lines[1])
        lead == width - Len(column_names)
    IN [columns |-> column_names,
        recs |-> [i \in 1..Len(f.lines) |->
                    [idx |-> IF lead > 0 THEN f.lines[i][1] ELSE i - 1,
                     row |-> SubSeq(f.lines[i], lead + 1, width)]],
        text |-> f.header # NoHeader]

RECURSIVE InsertSorted(_, _, _)
InsertSorted(cols, e, s) ==
    IF s = <<>> THEN <<e>>
    ELSE IF KeyLess(Key(cols, e.row), Key(cols, Head(s).row))
         THEN <<e>> \o s
         ELSE <<Head(s)>> \o InsertSorted(cols, e, Tail(s))

RECURSIVE SortRecs(_, _)
SortRecs(cols, s) ==
    IF s = <<>> THEN <<>>
    ELSE InsertSorted(cols, s[Len(s)], SortRecs(cols, SubSeq(s, 1, Len(s) - 1)))

\* cluster_data.sort_values(by=['source_block', 'station_block']): pandas
\* sorts by several columns with a stable sort.
sort_values(df) == [df EXCEPT !.recs = SortRecs(df.columns, df.recs)]

RECURSIVE SortKeys(_)
SortKeys(S) ==
    IF S = {} THEN <<>>
    ELSE LET m == CHOOSE k \in S : \A o \in S : o = k \/ KeyLess(k, o)
         IN <<m>> \o SortKeys(S \ {m})

\* cluster_data.groupby(by=[...]): the groups in ascending key order, each
\* holding its records in the frame's order.
groupby(df) ==
    LET keys == SortKeys({Key(df.columns, df.recs[i].row) : i \in 1..Len(df.recs)})
    IN [g \in 1..Len(keys) |->
          SelectSeq(df.recs, LAMBDA e : Key(df.columns, e.row) = keys[g])]

RECURSIVE InsertInt(_, _)
InsertInt(v, s) ==
    IF s = <<>> THEN <<v>>
    ELSE IF v < Head(s) THEN <<v>> \o s
         ELSE <<Head(s)>> \o InsertInt(v, Tail(s))

RECURSIVE SortInts(_)
SortInts(s) ==
    IF s = <<>> THEN <<>> ELSE InsertInt(Head(s), SortInts(Tail(s)))

\* A median taken without sorting: the middle value in the group's order.
median2_unsorted(cols, group) ==
    LET v == [i \in 1..Len(group) |-> group[i].row[Col(cols, "observed_tt")]]
        n == Len(v)
    IN IF n % 2 = 1 THEN 2 * v[(n + 1) \div 2]
       ELSE v[n \div 2] + v[n \div 2 + 1]

\* A median that takes the lower of the two middle values.
median2_lower(cols, group) ==
    LET v == SortInts([i \in 1..Len(group) |-> group[i].row[Col(cols, "observed_tt")]])
    IN 2 * v[(Len(v) + 1) \div 2]

\* Twice group['observed_tt'].median(): the middle value of the sorted
\* values, or the mean of the two middle values of an even number of them.
median2(cols, group) ==
    LET v == SortInts([i \in 1..Len(group) |-> group[i].row[Col(cols, "observed_tt")]])
        n == Len(v)
    IN IF n % 2 = 1 THEN 2 * v[(n + 1) \div 2]
       ELSE v[n \div 2] + v[n \div 2 + 1]

\* group[group['observed_tt'] >= med]
WithMedian_AtLeast(cols, group, med2) ==
    SelectSeq(group, LAMBDA e : 2 * e.row[Col(cols, "observed_tt")] >= med2)

\* group[group['observed_tt'] == med]
WithMedian(cols, group, med2) ==
    SelectSeq(group, LAMBDA e : 2 * e.row[Col(cols, "observed_tt")] = med2)

\* s[:1] lost: every row at the median is kept.
FirstOne_All(s) == s

\* s[-1:] for s[:1]
FirstOne_Last(s) == SubSeq(s, Len(s), Len(s))

\* s[:1]
FirstOne(s) == SubSeq(s, 1, IF Len(s) < 1 THEN Len(s) ELSE 1)

RECURSIVE Flatten(_)
Flatten(ss) == IF ss = <<>> THEN <<>> ELSE Head(ss) \o Flatten(Tail(ss))

\* final_df.to_csv(sorted_file, header=True): a header line, and the index
\* label in front of every line.
to_csv_header(cols, recs) ==
    [header |-> <<"">> \o cols,
     lines |-> [i \in 1..Len(recs) |-> <<recs[i].idx>> \o recs[i].row]]

\* The sort command. median() raises on a column of strings, and
\* pd.concat raises on an empty list of frames.
sort(f) ==
    LET cluster_data == sort_values(read_csv_names(f))
        groups == groupby(cluster_data)
        keep == [g \in 1..Len(groups) |->
                   FirstOne(WithMedian(cluster_data.columns, groups[g],
                                       median2(cluster_data.columns, groups[g])))]
    IN IF cluster_data.text THEN Raised
       ELSE IF keep = <<>> THEN Raised
       ELSE Written(to_csv_header(cluster_data.columns, Flatten(keep)))

\* pd.read_csv(p_file): the first line of the file names the columns, the
\* empty first name of a file sort wrote read as "Unnamed: 0". A file with
\* no header line has its first row taken for the names, and then none of
\* the frame's columns is called source_block.
read_csv_infer(f) ==
    IF f.header = NoHeader
    THEN [columns |-> <<>>, recs |-> <<>>, text |-> FALSE]
    ELSE [columns |-> [i \in 1..Len(f.header) |->
                         IF f.header[i] = "" THEN "Unnamed: 0" ELSE f.header[i]],
          recs |-> [i \in 1..Len(f.lines) |-> [idx |-> i - 1, row |-> f.lines[i]]],
          text |-> FALSE]

HasColumns(df, names) ==
    \A n \in 1..Len(names) : \E i \in 1..Len(df.columns) : df.columns[i] = names[n]

\* df[names]
Select(df, names) ==
    [columns |-> names,
     recs |-> [i \in 1..Len(df.recs) |->
                 [idx |-> df.recs[i].idx,
                  row |-> [n \in 1..Len(names) |->
                             df.recs[i].row[Col(df.columns, names[n])]]]],
     text |-> df.text]

key_columns == <<"source_block", "station_block">>

\* A merge on=['source_block'] alone.
merge_on_source(left, right) ==
    [columns |-> left.columns,
     recs |-> Flatten([i \in 1..Len(left.recs) |->
                 [j \in 1..Len(SelectSeq(right.recs,
                        LAMBDA e : Key(right.columns, e.row)[1]
                                     = Key(left.columns, left.recs[i].row)[1])) |->
                    left.recs[i]]]),
     text |-> left.text]

\* A merge with how='left': a left record without a match is kept.
merge_left(left, right) ==
    [columns |-> left.columns,
     recs |-> Flatten([i \in 1..Len(left.recs) |->
                 LET n == Len(SelectSeq(right.recs,
                            LAMBDA e : Key(right.columns, e.row)
                                         = Key(left.columns, left.recs[i].row)))
                 IN [j \in 1..(IF n = 0 THEN 1 ELSE n) |-> left.recs[i]]]),
     text |-> left.text]

\* pd.merge(left, right, how='inner', on=['source_block', 'station_block'])
\* for a right frame of the two key columns: one copy of a left record for
\* every right record of its key, in the order of the left records.
merge(left, right) ==
    [columns |-> left.columns,
     recs |-> Flatten([i \in 1..Len(left.recs) |->
                 [j \in 1..Len(SelectSeq(right.recs,
                        LAMBDA e : Key(right.columns, e.row)
                                     = Key(left.columns, left.recs[i].row))) |->
                    left.recs[i]]]),
     text |-> left.text]

\* df.to_csv(f, header=False), the index written
to_csv_plain_index(df) ==
    [header |-> NoHeader,
     lines |-> [i \in 1..Len(df.recs) |-> <<df.recs[i].idx>> \o df.recs[i].row]]

\* df.to_csv(f, index=False, header=False)
to_csv_plain(df) ==
    [header |-> NoHeader,
     lines |-> [i \in 1..Len(df.recs) |-> df.recs[i].row]]

\* The second merge lost: matched_S is s_arr as read.
match_unmatched_s(p_file, s_file) ==
    LET p_arr == read_csv_infer(p_file)
        s_arr == read_csv_infer(s_file)
    IN IF ~HasColumns(p_arr, key_columns) \/ ~HasColumns(s_arr, key_columns)
       THEN [p |-> Raised, s |-> Raised]
       ELSE LET blocks == merge(Select(p_arr, key_columns),
                                Select(s_arr, key_columns))
                matched_P == Select(merge(p_arr, blocks), column_names)
                matched_S == Select(s_arr, column_names)
            IN [p |-> Written(to_csv_plain(matched_P)),
                s |-> Written(to_csv_plain(matched_S))]

\* The match command: the outcomes for matched_p_file and matched_s_file.
\* Selecting the key columns of a frame that has none raises.
match(p_file, s_file) ==
    LET p_arr == read_csv_infer(p_file)
        s_arr == read_csv_infer(s_file)
    IN IF ~HasColumns(p_arr, key_columns) \/ ~HasColumns(s_arr, key_columns)
       THEN [p |-> Raised, s |-> Raised]
       ELSE LET blocks == merge(Select(p_arr, key_columns),
                                Select(s_arr, key_columns))
                matched_P == Select(merge(p_arr, blocks), column_names)
                matched_S == Select(merge(s_arr, blocks), column_names)
            IN [p |-> Written(to_csv_plain(matched_P)),
                s |-> Written(to_csv_plain(matched_S))]

----------------------------------------------------------------------------
(* _find_block *)

\* Latitudes and longitudes are integers in thousandths of a degree, depths
\* and dz in metres; a quotient is a fraction [num, den] with den > 0.
Degrees(d) == d * 1000

Frac(n, d) == [num |-> n, den |-> d]

\* a / b for a number a and a fraction b > 0
Over(a, b) == Frac(a * b.den, b.num)

\* round(): to the nearest integer; a tie goes to the even neighbour in
\* Python 3 and away from zero in Python 2.
round(q, mode) ==
    LET lo == q.num \div q.den
        twice == 2 * (q.num - lo * q.den)
    IN IF twice < q.den THEN lo
       ELSE IF twice > q.den THEN lo + 1
       ELSE IF mode = "half_even" THEN (IF lo % 2 = 0 THEN lo ELSE lo + 1)
       ELSE IF q.num >= 0 THEN lo + 1 ELSE lo

\* x = lon if lon >= 0 else lon + 360.0
LonNorm_NonNegative(lon) == IF lon >= 0 THEN lon ELSE lon + Degrees(360)

\* x = lon if lon > 0 else lon + 360.0
LonNorm(lon) == IF lon > 0 THEN lon ELSE lon + Degrees(360)

\* _find_block(dx, dy, dz, nx, ny, lat, lon, z): its locals and its result.
find_block(dx, dy, dz, nx, ny, lat, lon, z, mode) ==
    LET y == Degrees(90) - lat
        x == LonNorm(lon)
        i == round(Over(x, dx), mode) + 1
        j == round(Over(y, dy), mode) + 1
        k == round(Over(z, dz), mode) + 1
        block_number == (k - 1) * nx * ny + (j - 1) * nx + i
    IN [x |-> x, y |-> y, i |-> i, j |-> j, k |-> k, block |-> block_number]

\* The grids: the command's defaults, and a coarse one.
Grids == {[nx |-> 1440, ny |-> 720, dz |-> 25], [nx |-> 4, ny |-> 2, dz |-> 10]}

Latitudes == {Degrees(90), 89875, 0, Degrees(-90)}

Longitudes == {Degrees(-180), -179990, 0, 125, 375, 45000, Degrees(180)}

Depths == {0, 5, 15, 10000}

RoundModes == {"half_even", "half_away"}

----------------------------------------------------------------------------
(* The gather stage: events, stations and process_event.                    *)
(* Times are in seconds, a creation time an exact fraction of a second; an  *)
(* event is its creation time and its preferred origin; an origin is its    *)
(* latitude, longitude, depth, time and arrivals; an arrival is the station *)
(* code and the time of its pick, its phase and its time residual.          *)

\* nx, ny, dz: the defaults of the gather command's options
DefaultGrid == [nx |-> 1440, ny |-> 720, dz |-> 25]

\* wave_type.split(), on the choices of the --wave_type option
split(w) ==
    IF w = "P S" THEN <<"P", "S">>
    ELSE IF w = "Pn Sn" THEN <<"Pn", "Sn">>
    ELSE IF w = "Pg Sg" THEN <<"Pg", "Sg">>
    ELSE <<"p", "s">>

WaveTypes == {"P S", "Pn Sn"}

\* int(): truncation towards zero
int(q) == IF q.num >= 0 THEN q.num \div q.den ELSE -((-q.num) \div q.den)

Abs(n) == IF n >= 0 THEN n ELSE -n

\* locations2degrees: the great-circle distance, here between two points of
\* one meridian or two points of the equator, where it is the difference of
\* the latitudes, or of the longitudes the short way round.
locations2degrees(lat1, lon1, lat2, lon2) ==
    IF lon1 = lon2 THEN Abs(lat1 - lat2)
    ELSE LET d == Abs(lon1 - lon2)
         IN IF d > Degrees(180) THEN Degrees(360) - d ELSE d

\* An entry of the stations dict (its other fields are not read by gather).
Station(lat, lon) == [latitude |-> lat, longitude |-> lon]

\* The stations dict of the runs: on the equator, 20, 90.0 and 90.01
\* degrees east of the origins below.
StationTable ==
    [code \in {"NEAR", "EDGE", "FAR"} |->
        IF code = "NEAR" THEN Station(0, Degrees(30))
        ELSE IF code = "EDGE" THEN Station(0, Degrees(100))
        ELSE Station(0, Degrees(100) + 10)]

\* A line of the stations file: the cells read_stations and gather use.
StationLine(code, lat, lon) ==
    [station_code |-> code, latitude |-> lat, longitude |-> lon]

\* The header line of the stations file.
StationHeader == StationLine("station_code", "latitude", "longitude")

\* stations_dict[station.station_code] = station
setitem(stations_dict, code, station) ==
    [c \in DOMAIN stations_dict \cup {code} |->
        IF c = code THEN station ELSE stations_dict[c]]

RECURSIVE read_lines(_, _)
read_lines(stations_dict, lines) ==
    IF lines = <<>> THEN stations_dict
    ELSE read_lines(setitem(stations_dict, Head(lines).station_code,
                            Station(Head(lines).latitude,
                                    Head(lines).longitude)),
                    Tail(lines))

\* read_stations(station_file): next(reader) skips the first line, and each
\* line after it is entered under its station code.
read_stations(station_file) == read_lines(<<>>, Tail(station_file))

\* a merge in which the entries already in the dict are kept
update_keep(stations_dict, other) ==
    [c \in DOMAIN stations_dict \cup DOMAIN other |->
        IF c \in DOMAIN stations_dict THEN stations_dict[c] ELSE other[c]]

\* stations.update(isc_stations)
update(stations_dict, other) ==
    [c \in DOMAIN stations_dict \cup DOMAIN other |->
        IF c \in DOMAIN other THEN other[c] ELSE stations_dict[c]]

\* The lines of the stations files of the runs, and the files: a header
\* line and up to n lines.
StationLines ==
    {StationLine(code, 0, lon) :
        code \in {"NEAR", "EDGE"}, lon \in {Degrees(30), Degrees(100)}}

StationFiles(n) == {<<StationHeader>> \o l : l \in SeqsUpTo(StationLines, n)}

\* What gather_isc_stations() may return: a dict of some of two codes.
IscDicts ==
    UNION {[D -> {Station(0, Degrees(30)), Station(0, Degrees(100))}] :
             D \in SUBSET {"NEAR", "FAR"}}

Arrival(code, phase, pick_time) ==
    [station_code |-> code, phase |-> phase, time_residual |-> pick_time - 110,
     pick_time |-> pick_time]

\* "GONE" is a station code no inventory holds.
ArrivalKinds ==
    {Arrival("NEAR", "P", 111), Arrival("EDGE", "S", 112),
     Arrival("NEAR", "Pn", 113), Arrival("GONE", "P", 114),
     Arrival("FAR", "S", 115)}

\* event.preferred_origin() of an event that has none
NoOrigin == [none |-> TRUE]

\* Origins on the equator at 10 degrees east.
Origin(depth, arrivals) ==
    [none |-> FALSE, latitude |-> 0, longitude |-> Degrees(10),
     depth |-> depth, time |-> 100, arrivals |-> arrivals]

Event(creation_time, origin) ==
    [creation_time |-> creation_time, origin |-> origin]

\* The events that count c towards the size of a catalogue: one for the
\* event and one for each of its arrivals. They are an event without a
\* preferred origin, the events at sea level with any arrivals, and the
\* events 40 m above sea level with one arrival.
EventsOfCost(c) ==
    (IF c = 1 THEN {Event(Frac(1, 1), NoOrigin)} ELSE {})
    \cup {Event(Frac(3, 2000000), Origin(0, l)) :
            l \in [1..(c - 1) -> ArrivalKinds]}
    \cup (IF c = 2
          THEN {Event(Frac(7, 2000000), Origin(-40, <<arr>>)) :
                  arr \in ArrivalKinds}
          ELSE {})

\* The catalogues of size up to n.
Batches(n) ==
    LET upto[k \in 0..n] ==
            {<<>>} \cup UNION {{<<ev>> \o rest : ev \in EventsOfCost(c),
                                                 rest \in upto[k - c]} :
                               c \in 1..k}
    IN upto[n]

\* What handling one arrival comes to.
Skip == [kind |-> "skip"]

Raise == [kind |-> "raise"]

Row(sink, row) == [kind |-> "row", sink |-> sink, row |-> row]

\* if sta_code not in stations: the arrival raises a KeyError
unknown_station_raises(sta_code) == Raise

\* if sta_code not in stations: log.warning(...); continue
unknown_station(sta_code) == Skip

\* if degrees_to_source >= 90.0
too_far_inclusive(degrees_to_source) == degrees_to_source >= Degrees(90)

\* if degrees_to_source > 90.0
too_far(degrees_to_source) == degrees_to_source > Degrees(90)

\* every phase is written
requested_any(phase, w) == TRUE

\* arr.phase in wave_type.split()
requested(phase, w) == \E n \in 1..Len(split(w)) : split(w)[n] = phase

\* writer = p_writer if arr.phase == p_type else s_writer
writer_of(phase, p_type) == IF phase = p_type THEN "P" ELSE "S"

\* the list handed to writerow, with the two blocks in each other's place
arrival_row_swapped(event_block, station_block, arr, ev_number, origin, sta, degrees, p_type) ==
    <<station_block, event_block, arr.time_residual, ev_number,
      origin.longitude, origin.latitude, origin.depth,
      sta.longitude, sta.latitude, arr.pick_time - origin.time,
      degrees, IF arr.phase = p_type THEN 1 ELSE 2>>

\* the list handed to writerow
arrival_row(event_block, station_block, arr, ev_number, origin, sta, degrees, p_type) ==
    <<event_block, station_block, arr.time_residual, ev_number,
      origin.longitude, origin.latitude, origin.depth,
      sta.longitude, sta.latitude, arr.pick_time - origin.time,
      degrees, IF arr.phase = p_type THEN 1 ELSE 2>>

\* One pass of the loop over origin.arrivals.
process_arrival(arr, origin, event_block, ev_number, lookup, g, w, mode) ==
    LET p_type == split(w)[1]
        dx == Frac(Degrees(360), g.nx)
        dy == Frac(Degrees(180), g.ny)
        sta_code == arr.station_code
    IN IF sta_code \notin DOMAIN lookup THEN unknown_station(sta_code)
       ELSE LET sta == lookup[sta_code]
                degrees_to_source ==
                    locations2degrees(origin.latitude, origin.longitude,
                                      sta.latitude, sta.longitude)
                station_block ==
                    find_block(dx, dy, Frac(g.dz, 1), g.nx, g.ny,
                               sta.latitude, sta.longitude, 0, mode).block
            IN IF too_far(degrees_to_source) THEN Skip
               ELSE IF requested(arr.phase, w)
                    THEN Row(writer_of(arr.phase, p_type),
                             arrival_row(event_block, station_block, arr,
                                         ev_number, origin, sta,
                                         degrees_to_source, p_type))
                    ELSE Skip

\* process_event: whether it raised, and the rows it wrote before that, in
\* the order written, each with its sink and the position of its arrival.
process_event(event, lookup, g, w, mode) ==
    LET ev_number == int(Frac(event.creation_time.num * 1000000,
                              event.creation_time.den))
        origin == event.origin
    IN IF origin.none THEN [raised |-> TRUE, writes |-> <<>>]
       ELSE
        LET dx == Frac(Degrees(360), g.nx)
            dy == Frac(Degrees(180), g.ny)
            event_block ==
                find_block(dx, dy, Frac(g.dz, 1), g.nx, g.ny, origin.latitude,
                           origin.longitude, origin.depth, mode).block
            steps == [a \in 1..Len(origin.arrivals) |->
                        [arrival |-> a,
                         step |-> process_arrival(origin.arrivals[a], origin,
                                                  event_block, ev_number,
                                                  lookup, g, w, mode)]]
            raising == {a \in 1..Len(steps) : steps[a].step.kind = "raise"}
            reached == SelectSeq(steps,
                                 LAMBDA s : \A b \in raising : s.arrival < b)
            wrote == SelectSeq(reached, LAMBDA s : s.step.kind = "row")
        IN [raised |-> raising # {},
            writes |-> [n \in 1..Len(wrote) |->
                          [sink |-> wrote[n].step.sink,
                           row |-> wrote[n].step.row,
                           arrival |-> wrote[n].arrival]]]

\* the rows of a list of writes that went to sink c
for_sink(writes, c) == SelectSeq(writes, LAMBDA x : x.sink = c)

\* writerow puts the row in front of the lines written so far
writerow_front(lines, row) == <<row>> \o lines

\* writer.writerow(row)
writerow(lines, row) == Append(lines, row)

RECURSIVE write_rows(_, _)
write_rows(lines, rows) ==
    IF rows = <<>> THEN lines
    ELSE write_rows(writerow(lines, Head(rows)), Tail(rows))

----------------------------------------------------------------------------
(* The commands *)

NoCall == [done |-> FALSE]

\* No station source is read: the stations dict is given.
NoInventory == [station_file |-> <<>>, isc_stations |-> <<>>]

\* No batch is run: gather is not part of the behaviour.
NoBatch == [pc |-> "none", e |-> 0, p_handle |-> "none", s_handle |-> "none"]

IdleGather ==
    /\ events = <<>>
    /\ stations = <<>>
    /\ wave_type = "P S"
    /\ batch = NoBatch
    /\ row_source = [c \in WaveClasses |-> <<>>]
    /\ buffers = <<>>
    /\ inventory = NoInventory

IdleRest ==
    /\ cur_call = NoCall
    /\ prev_call = NoCall
    /\ round_mode = "half_even"
    /\ IdleGather

InitSort ==
    /\ \E f \in PlainFiles(RowSet("P"), MaxRows) :
          output_file = [c \in WaveClasses |-> IF c = "P" THEN f ELSE EmptyFile]
    /\ sorted_file = [c \in WaveClasses |-> NotRun]
    /\ resorted_file = NotRun
    /\ matched_p_file = NotRun
    /\ matched_s_file = NotRun
    /\ IdleRest

\* sort OUTPUT_FILE, on the gathered file of class c.
SortCmd(c) ==
    /\ sorted_file[c].status = "none"
    /\ sorted_file' = [sorted_file EXCEPT ![c] = sort(output_file[c])]
    /\ UNCHANGED <<output_file, resorted_file, matched_p_file, matched_s_file,
                   cur_call, prev_call, round_mode, gather_vars>>

SortP == SortCmd("P")

SortS == SortCmd("S")

\* The orders of n lines.
Perms(n) == {q \in [1..n -> 1..n] : \A i, j \in 1..n : q[i] = q[j] => i = j}

Reorder(lines, q) == [i \in 1..Len(lines) |-> lines[q[i]]]

\* sort on two gathered files that hold the same rows, each row as many
\* times in one as in the other, in two orders.
InitOrder ==
    /\ \E l \in SeqsUpTo(OrderRowSet, MaxOrderRows) : \E q \in Perms(Len(l)) :
          output_file = [c \in WaveClasses |->
                           [header |-> NoHeader,
                            lines |-> IF c = "P" THEN l ELSE Reorder(l, q)]]
    /\ sorted_file = [c \in WaveClasses |-> NotRun]
    /\ resorted_file = NotRun
    /\ matched_p_file = NotRun
    /\ matched_s_file = NotRun
    /\ IdleRest

NextOrder == SortP \/ SortS

SpecOrder == InitOrder /\ [][NextOrder]_vars

\* sort, on the file sort wrote for class P.
SortAgain ==
    /\ sorted_file["P"].status = "ok"
    /\ resorted_file.status = "none"
    /\ resorted_file' = sort(sorted_file["P"].file)
    /\ UNCHANGED <<output_file, sorted_file, matched_p_file, matched_s_file,
                   cur_call, prev_call, round_mode, gather_vars>>

NextSort == SortP \/ SortAgain

SpecSort == InitSort /\ [][NextSort]_vars

\* match P_FILE S_FILE, on the two sorted files.
MatchCmd ==
    /\ sorted_file["P"].status = "ok"
    /\ sorted_file["S"].status = "ok"
    /\ matched_p_file.status = "none"
    /\ LET m == match(sorted_file["P"].file, sorted_file["S"].file)
       IN /\ matched_p_file' = m.p
          /\ matched_s_file' = m.s
    /\ UNCHANGED <<output_file, sorted_file, resorted_file,
                   cur_call, prev_call, round_mode, gather_vars>>

\* match on any two files a user passes: with sort's header and index
\* column, or (an empty file, a file of one row) without.
MatchInputs(c, n) ==
    IndexedFiles(MatchRowSet(c), n) \cup PlainFiles(MatchRowSet(c), 1)

InitMatch ==
    /\ output_file = [c \in WaveClasses |-> EmptyFile]
    /\ \E p \in MatchInputs("P", MaxMatchRows),
          s \in MatchInputs("S", MaxMatchRowsS) :
          sorted_file = [c \in WaveClasses |->
                           Written(IF c = "P" THEN p ELSE s)]
    /\ resorted_file = NotRun
    /\ matched_p_file = NotRun
    /\ matched_s_file = NotRun
    /\ IdleRest

NextMatch == MatchCmd

SpecMatch == InitMatch /\ [][NextMatch]_vars

\* The pipeline after gather: sort each gathered file, then match.
Init ==
    /\ \E p \in PlainFiles(PipeRowSet("P"), MaxPipeRows),
          s \in PlainFiles(PipeRowSet("S"), MaxPipeRows) :
          output_file = [c \in WaveClasses |-> IF c = "P" THEN p ELSE s]
    /\ sorted_file = [c \in WaveClasses |-> NotRun]
    /\ resorted_file = NotRun
    /\ matched_p_file = NotRun
    /\ matched_s_file = NotRun
    /\ IdleRest

Next == SortP \/ SortS \/ MatchCmd

Spec == Init /\ [][Next]_vars

\* A call of _find_block, made as process_event makes it: dx = 360. / nx,
\* dy = 180. / ny. Two calls are followed, to compare their results.
FindBlock ==
    /\ ~prev_call.done
    /\ \E g \in Grids, lat \in Latitudes, lon \in Longitudes, z \in Depths :
        LET dx == Frac(Degrees(360), g.nx)
            dy == Frac(Degrees(180), g.ny)
            r == find_block(dx, dy, Frac(g.dz, 1), g.nx, g.ny, lat, lon, z,
                            round_mode)
        IN /\ cur_call' = [done |-> TRUE, nx |-> g.nx, ny |-> g.ny, dz |-> g.dz,
                           lat |-> lat, lon |-> lon, z |-> z,
                           x |-> r.x, y |-> r.y, i |-> r.i, j |-> r.j,
                           k |-> r.k, block |-> r.block]
           /\ prev_call' = cur_call
    /\ UNCHANGED <<output_file, sorted_file, resorted_file,
                   matched_p_file, matched_s_file, round_mode, gather_vars>>

InitBlock ==
    /\ output_file = [c \in WaveClasses |-> EmptyFile]
    /\ sorted_file = [c \in WaveClasses |-> NotRun]
    /\ resorted_file = NotRun
    /\ matched_p_file = NotRun
    /\ matched_s_file = NotRun
    /\ cur_call = NoCall
    /\ prev_call = NoCall
    /\ round_mode \in RoundModes
    /\ IdleGather

NextBlock == FindBlock

SpecBlock == InitBlock /\ [][NextBlock]_vars

\* The variables of the commands that follow gather.
command_vars == <<sorted_file, resorted_file, matched_p_file, matched_s_file,
                  cur_call, prev_call, round_mode>>

\* process_many_events is entered; nothing is opened yet.
Entered == [pc |-> "start", e |-> 0, p_handle |-> "none", s_handle |-> "none"]

\* process_many_events, up to the loop: both files are opened for writing.
OpenSinks ==
    /\ batch.pc = "start"
    /\ batch' = [pc |-> "loop", e |-> 1, p_handle |-> "open",
                 s_handle |-> "open"]
    /\ output_file' = [c \in WaveClasses |-> EmptyFile]
    /\ UNCHANGED <<command_vars, events, stations, wave_type, row_source,
                   buffers, inventory>>

\* A pass of the loop in which process_event takes the stations it looks up
\* out of the dict (stations.pop(sta_code)).
ProcessEvent_PopsStations ==
    /\ batch.pc = "loop"
    /\ batch.e <= Len(events)
    /\ LET r == process_event(events[batch.e], stations, DefaultGrid,
                              wave_type, round_mode)
           seen == IF events[batch.e].origin.none THEN {}
                   ELSE {events[batch.e].origin.arrivals[a].station_code :
                           a \in 1..Len(events[batch.e].origin.arrivals)}
       IN /\ output_file' =
                [c \in WaveClasses |->
                   [output_file[c] EXCEPT !.lines =
                       write_rows(@, [n \in 1..Len(for_sink(r.writes, c)) |->
                                        for_sink(r.writes, c)[n].row])]]
          /\ row_source' =
                [c \in WaveClasses |->
                   write_rows(row_source[c],
                              [n \in 1..Len(for_sink(r.writes, c)) |->
                                 [e |-> batch.e,
                                  a |-> for_sink(r.writes, c)[n].arrival]])]
          /\ batch' = IF r.raised THEN [batch EXCEPT !.pc = "raised"]
                      ELSE [batch EXCEPT !.e = @ + 1]
          /\ stations' = [c \in DOMAIN stations \ seen |-> stations[c]]
    /\ UNCHANGED <<command_vars, events, wave_type, buffers, inventory>>

\* One pass of the loop of process_many_events: process_event on the next
\* event. An exception it raises leaves process_many_events at once.
ProcessEvent ==
    /\ batch.pc = "loop"
    /\ batch.e <= Len(events)
    /\ LET r == process_event(events[batch.e], stations, DefaultGrid,
                              wave_type, round_mode)
       IN /\ output_file' =
                [c \in WaveClasses |->
                   [output_file[c] EXCEPT !.lines =
                       write_rows(@, [n \in 1..Len(for_sink(r.writes, c)) |->
                                        for_sink(r.writes, c)[n].row])]]
          /\ row_source' =
                [c \in WaveClasses |->
                   write_rows(row_source[c],
                              [n \in 1..Len(for_sink(r.writes, c)) |->
                                 [e |-> batch.e,
                                  a |-> for_sink(r.writes, c)[n].arrival]])]
          /\ batch' = IF r.raised THEN [batch EXCEPT !.pc = "raised"]
                      ELSE [batch EXCEPT !.e = @ + 1]
    /\ UNCHANGED <<command_vars, events, stations, wave_type, buffers,
                   inventory>>

\* process_many_events, after the loop: p_handle.close(); s_handle.close()
CloseSinks ==
    /\ batch.pc = "loop"
    /\ batch.e > Len(events)
    /\ batch' = [batch EXCEPT !.pc = "done", !.p_handle = "closed",
                              !.s_handle = "closed"]
    /\ UNCHANGED <<command_vars, output_file, events, stations, wave_type,
                   row_source, buffers, inventory>>

InitBatch ==
    /\ output_file = [c \in WaveClasses |-> EmptyFile]
    /\ sorted_file = [c \in WaveClasses |-> NotRun]
    /\ resorted_file = NotRun
    /\ matched_p_file = NotRun
    /\ matched_s_file = NotRun
    /\ cur_call = NoCall
    /\ prev_call = NoCall
    /\ round_mode = "half_even"
    /\ stations = StationTable
    /\ wave_type \in WaveTypes
    /\ batch = Entered
    /\ row_source = [c \in WaveClasses |-> <<>>]
    /\ inventory = NoInventory

InitGather ==
    /\ events \in Batches(MaxBatch)
    /\ InitBatch
    /\ buffers = <<>>

NextGather == OpenSinks \/ ProcessEvent \/ CloseSinks

SpecGather == InitGather /\ [][NextGather]_vars

\* gather is entered; the stations are not read yet.
AtGather == [pc |-> "gather", e |-> 0, p_handle |-> "none", s_handle |-> "none"]

\* gather, up to the call of process_many_events: the stations file is
\* read and the ISC stations are merged into it.
ReadStations ==
    /\ batch.pc = "gather"
    /\ stations' = update(read_stations(inventory.station_file),
                          inventory.isc_stations)
    /\ batch' = Entered
    /\ UNCHANGED <<command_vars, output_file, events, wave_type, row_source,
                   buffers, inventory>>

\* The gather command on a catalogue of one event of one arrival.
InitStations ==
    /\ \E ev \in EventsOfCost(2) : events = <<ev>>
    /\ \E f \in StationFiles(MaxStationRows), isc \in IscDicts :
          inventory = [station_file |-> f, isc_stations |-> isc]
    /\ output_file = [c \in WaveClasses |-> EmptyFile]
    /\ sorted_file = [c \in WaveClasses |-> NotRun]
    /\ resorted_file = NotRun
    /\ matched_p_file = NotRun
    /\ matched_s_file = NotRun
    /\ cur_call = NoCall
    /\ prev_call = NoCall
    /\ round_mode = "half_even"
    /\ stations = <<>>
    /\ wave_type = "P S"
    /\ batch = AtGather
    /\ row_source = [c \in WaveClasses |-> <<>>]
    /\ buffers = <<>>

NextStations == ReadStations \/ OpenSinks \/ ProcessEvent \/ CloseSinks

SpecStations == InitStations /\ [][NextStations]_vars

\* A worker's buffer before the worker has run.
NotExtracted == [done |-> FALSE, writes |-> <<>>]

\* A worker extracts event i into its own buffer: process_event on writers
\* of its own. An event that fails leaves what was written before.
Extract(i) ==
    /\ ~buffers[i].done
    /\ buffers' = [buffers EXCEPT ![i] =
                     [done |-> TRUE,
                      writes |-> process_event(events[i], stations,
                                               DefaultGrid, wave_type,
                                               round_mode).writes]]
    /\ UNCHANGED <<command_vars, output_file, events, stations, wave_type,
                   batch, row_source, inventory>>

ExtractSome == \E i \in 1..Len(events) : Extract(i)

\* The sequential batch, and beside it one worker an event.
InitWorkers ==
    /\ events \in Batches(MaxWorkerBatch)
    /\ InitBatch
    /\ buffers = [i \in 1..Len(events) |-> NotExtracted]

NextWorkers == OpenSinks \/ ProcessEvent \/ CloseSinks \/ ExtractSome

SpecWorkers == InitWorkers /\ [][NextWorkers]_vars

----------------------------------------------------------------------------
(* The dedup stage, under SpecSort: what is claimed of sort, stated on the  *)
(* cells of the input file and of the file sort wrote. In a gathered row    *)
(* the source_block is cell 1, the station_block cell 2 and the observed_tt *)
(* cell 10; a line sort wrote has the index label in front of them.         *)

InLines == output_file["P"].lines

Sorted == sorted_file["P"].status = "ok"

OutLines == sorted_file["P"].file.lines

InKey(row) == <<row[1], row[2]>>

InKeys == {InKey(InLines[p]) : p \in 1..Len(InLines)}

OutKey(line) == <<line[2], line[3]>>

\* The positions of the input rows of key k: its group.
GroupOf(k) == {p \in 1..Len(InLines) : InKey(InLines[p]) = k}

TT(p) == InLines[p][10]

\* Row p holds the median travel time of its group: fewer than half of the
\* group's rows are below it and fewer than half are above it.
AtMedian(p) ==
    LET G == GroupOf(InKey(InLines[p]))
    IN /\ 2 * Cardinality({q \in G : TT(q) < TT(p)}) < Cardinality(G)
       /\ 2 * Cardinality({q \in G : TT(q) > TT(p)}) < Cardinality(G)

MedianRows(k) == {p \in GroupOf(k) : AtMedian(p)}

\* The group of k is even-sized and its two central travel times differ:
\* exactly half of its rows are at or below one of its travel times.
CentralValuesDiffer(k) ==
    LET G == GroupOf(k)
    IN \E p \in G : 2 * Cardinality({q \in G : TT(q) <= TT(p)}) = Cardinality(G)

OutLinesOf(k) == {i \in 1..Len(OutLines) : OutKey(OutLines[i]) = k}

Min(S) == CHOOSE m \in S : \A o \in S : m <= o

\* C1: the output of sort holds at most one row for each distinct
\* (source_block, station_block) key.
C1_AtMostOneRowPerKey ==
    Sorted =>
        \A i, j \in 1..Len(OutLines) :
            OutKey(OutLines[i]) = OutKey(OutLines[j]) => i = j

\* C1's case: a key with several input rows, and a row of it in the output.
C1_Witness ==
    /\ Sorted
    /\ \E k \in InKeys : Cardinality(GroupOf(k)) >= 3 /\ OutLinesOf(k) # {}

\* C2: a group in which some row has observed_tt equal to the group's
\* median (every odd-sized group is one) keeps exactly one row, the first
\* such row in the input order.
C2_FirstMedianRowKept ==
    Sorted =>
        \A k \in InKeys :
            /\ Cardinality(GroupOf(k)) % 2 = 1 => MedianRows(k) # {}
            /\ MedianRows(k) # {} =>
                  /\ Cardinality(OutLinesOf(k)) = 1
                  /\ \A i \in OutLinesOf(k) :
                        /\ OutLines[i][1] = Min(MedianRows(k)) - 1
                        /\ Tail(OutLines[i]) = InLines[Min(MedianRows(k))]

\* C2's case: a group with two rows at its median, neither the group's
\* first row, and its row in the output.
C2_Witness ==
    /\ Sorted
    /\ \E k \in InKeys :
          /\ Cardinality(MedianRows(k)) >= 2
          /\ Min(MedianRows(k)) > Min(GroupOf(k))
          /\ OutLinesOf(k) # {}

\* C3: an even-sized group whose two central observed_tt values differ has
\* a median that equals no member's observed_tt, and no row of it is in the
\* output.
C3_EvenGroupDropped ==
    Sorted =>
        \A k \in InKeys :
            CentralValuesDiffer(k) =>
                LET df == read_csv_names(output_file["P"])
                    group == SelectSeq(df.recs, LAMBDA e : InKey(e.row) = k)
                IN /\ \A p \in GroupOf(k) :
                         median2(df.columns, group) # 2 * TT(p)
                   /\ OutLinesOf(k) = {}

\* C3's case: an even-sized group with differing central values is dropped
\* while another group keeps its row.
C3_Witness ==
    /\ Sorted
    /\ Len(OutLines) >= 1
    /\ \E k \in InKeys : CentralValuesDiffer(k) /\ OutLinesOf(k) = {}

\* C4, as claimed: every distinct key of the input is in exactly one row of
\* the output.
C4_EveryKeyOnce ==
    Sorted => \A k \in InKeys : Cardinality(OutLinesOf(k)) = 1

\* C4, amended: every key of the output is a key of the input, and a key of
\* the input is in exactly one row of the output when some row of its group
\* is at the group's median, and in none otherwise.
C4_KeyOnceIffMedianRow ==
    Sorted =>
        /\ \A i \in 1..Len(OutLines) : OutKey(OutLines[i]) \in InKeys
        /\ \A k \in InKeys :
              Cardinality(OutLinesOf(k)) = IF MedianRows(k) # {} THEN 1 ELSE 0

\* C4's case: one key of the input is kept and another is absent.
C4_Witness ==
    /\ Sorted
    /\ \E k1, k2 \in InKeys : OutLinesOf(k1) # {} /\ OutLinesOf(k2) = {}

\* C5: sort applied to its own output gives what sort gave: the same rows
\* in the same order.
C5_SortIdempotent ==
    resorted_file.status # "none" => resorted_file = sorted_file["P"]

----------------------------------------------------------------------------
(* The order of the gathered file, under SpecOrder: output_file["P"] and   *)
(* output_file["S"] hold the same rows in two orders.                       *)

SortedBoth == sorted_file["P"].status # "none" /\ sorted_file["S"].status # "none"

Kept(c) == [i \in 1..Len(sorted_file[c].file.lines) |-> Tail(sorted_file[c].file.lines[i])]

KeptKeys(c) == {InKey(Kept(c)[i]) : i \in 1..Len(Kept(c))}

ObservedTT(row) == row[Col(column_names, "observed_tt")]

\* C25: for two orders of the same rows, sort raises on both or on neither,
\* the files it writes hold the same set of keys, and the rows kept for a
\* key in the two files have the same observed_tt.
C25_OrderIndependent ==
    SortedBoth =>
        /\ sorted_file["P"].status = sorted_file["S"].status
        /\ KeptKeys("P") = KeptKeys("S")
        /\ \A i \in 1..Len(Kept("P")), j \in 1..Len(Kept("S")) :
              InKey(Kept("P")[i]) = InKey(Kept("S")[j])
                  => ObservedTT(Kept("P")[i]) = ObservedTT(Kept("S")[j])

\* C25's case: the two orders differ, sort has dropped a row, and the rows
\* it kept for a key differ between the two files.
C25_Witness ==
    /\ sorted_file["P"].status = "ok" /\ sorted_file["S"].status = "ok"
    /\ output_file["P"] # output_file["S"]
    /\ Len(Kept("P")) < Len(output_file["P"].lines)
    /\ \E i \in 1..Len(Kept("P")), j \in 1..Len(Kept("S")) :
          /\ InKey(Kept("P")[i]) = InKey(Kept("S")[j])
          /\ Kept("P")[i] # Kept("S")[j]

----------------------------------------------------------------------------
(* The match stage, under SpecMatch. A is the P file handed to match and B  *)
(* the S file, both as sort writes them: the index label, then the 12       *)
(* fields of the row.                                                       *)

Matched == matched_p_file.status = "ok" /\ matched_s_file.status = "ok"

\* The rows of a file sort wrote: its lines without their index label.
RowsOf(f) == [i \in 1..Len(f.lines) |-> Tail(f.lines[i])]

RowsA == RowsOf(sorted_file["P"].file)

RowsB == RowsOf(sorted_file["S"].file)

OutA == matched_p_file.file.lines

OutB == matched_s_file.file.lines

KeysIn(rows) == {InKey(rows[i]) : i \in 1..Len(rows)}

Range(q) == {q[i] : i \in 1..Len(q)}

\* The keys present in both inputs.
BothKeys == KeysIn(RowsA) \cap KeysIn(RowsB)

InBoth(row) == InKey(row) \in BothKeys

KeyUnique(rows) ==
    \A i, j \in 1..Len(rows) : InKey(rows[i]) = InKey(rows[j]) => i = j

\* No key present in both inputs is the key of two rows of one input.
SharedKeysUnique ==
    /\ \A i, j \in 1..Len(RowsA) :
          InBoth(RowsA[i]) /\ InKey(RowsA[i]) = InKey(RowsA[j]) => i = j
    /\ \A i, j \in 1..Len(RowsB) :
          InBoth(RowsB[i]) /\ InKey(RowsB[i]) = InKey(RowsB[j]) => i = j

\* C6: the outputs of match are the rows of A whose key is present in both
\* inputs and the rows of B whose key is present in both; for inputs
\* without repeated keys, each such row once and in its input's order.
C6_MatchKeepsSharedKeys ==
    Matched =>
        /\ Range(OutA) = {r \in Range(RowsA) : InBoth(r)}
        /\ Range(OutB) = {r \in Range(RowsB) : InBoth(r)}
        /\ KeyUnique(RowsA) /\ KeyUnique(RowsB) =>
              /\ OutA = SelectSeq(RowsA, InBoth)
              /\ OutB = SelectSeq(RowsB, InBoth)

\* C6's case: P keys (1,1), (1,2) and S keys (1,2), (2,2) give one P row
\* and one S row, both of key (1,2).
C6_Witness ==
    /\ Matched
    /\ KeysIn(RowsA) = {<<1, 1>>, <<1, 2>>}
    /\ KeysIn(RowsB) = {<<1, 2>>, <<2, 2>>}
    /\ Len(OutA) = 1 /\ InKey(OutA[1]) = <<1, 2>>
    /\ Len(OutB) = 1 /\ InKey(OutB[1]) = <<1, 2>>

RowCountsBounded ==
    /\ Len(OutA) <= Len(RowsA)
    /\ Len(OutA) <= Cardinality(KeysIn(RowsB))
    /\ Len(OutB) <= Len(RowsB)
    /\ Len(OutB) <= Cardinality(KeysIn(RowsA))

OutputKeysShared == KeysIn(OutA) \cup KeysIn(OutB) \subseteq BothKeys

\* C7, as claimed: for all inputs, A' has at most as many rows as A and as
\* B has distinct keys (and B' symmetrically), and no key is in an output
\* that is not in both inputs.
C7_RowCountsBoundedAlways ==
    Matched => RowCountsBounded /\ OutputKeysShared

\* C7, amended: no key is in an output that is not in both inputs, and the
\* row counts are bounded for inputs in which no key present in both is
\* repeated within A or within B.
C7_RowCountsBoundedIfUnique ==
    Matched =>
        /\ OutputKeysShared
        /\ SharedKeysUnique => RowCountsBounded

\* C7's case: inputs without a repeated shared key, some row kept and some
\* row dropped.
C7_Witness ==
    /\ Matched
    /\ SharedKeysUnique
    /\ ~KeyUnique(RowsA)
    /\ 1 <= Len(OutA) /\ Len(OutA) < Len(RowsA)

----------------------------------------------------------------------------
(* Both stages, under Spec *)

\* C8: every row sort or match writes equals, in its 12 fields and their
\* order, a row of the file that stage read.
C8_RowsUnaltered ==
    /\ \A c \in WaveClasses :
          sorted_file[c].status = "ok" =>
              \A r \in Range(RowsOf(sorted_file[c].file)) :
                  /\ Len(r) = 12
                  /\ r \in Range(output_file[c].lines)
    /\ matched_p_file.status = "ok" =>
          \A r \in Range(OutA) : Len(r) = 12 /\ r \in Range(RowsA)
    /\ matched_s_file.status = "ok" =>
          \A r \in Range(OutB) : Len(r) = 12 /\ r \in Range(RowsB)

\* C8's case: match has written a row of each class, sort having dropped
\* rows of the gathered P file.
C8_Witness ==
    /\ Matched
    /\ Len(OutA) >= 1 /\ Len(OutB) >= 1
    /\ Len(RowsA) < Len(output_file["P"].lines)

\* C24: under Spec, where sort has run on the gathered P file and on the
\* gathered S file and match on the two files sort wrote, the matched P
\* output and the matched S output hold the same set of keys, each key in
\* one row of each, and the two outputs have the same number of rows.
C24_OutputsPaired ==
    Matched =>
        /\ KeysIn(OutA) = KeysIn(OutB)
        /\ KeyUnique(OutA)
        /\ KeyUnique(OutB)
        /\ Len(OutA) = Len(OutB)

\* C24's case: sort has dropped a row of a gathered file, the two sorted
\* files differ in their keys, and match has written a row of each class.
C24_Witness ==
    /\ Matched
    /\ Len(OutA) >= 1
    /\ KeysIn(RowsA) # KeysIn(RowsB)
    /\ \E c \in WaveClasses :
          Len(sorted_file[c].file.lines) < Len(output_file[c].lines)

----------------------------------------------------------------------------
(* _find_block, under SpecBlock *)

\* The id claimed for the inputs of call c.
ClaimedBlock(c) ==
    LET lon_norm == IF c.lon <= 0 THEN c.lon + Degrees(360) ELSE c.lon
        i == round(Frac(lon_norm * c.nx, Degrees(360)), round_mode) + 1
        j == round(Frac((Degrees(90) - c.lat) * c.ny, Degrees(180)), round_mode) + 1
        k == round(Frac(c.z, c.dz), round_mode) + 1
    IN (k - 1) * c.nx * c.ny + (j - 1) * c.nx + i

SameInputs(c, d) ==
    /\ c.lat = d.lat /\ c.lon = d.lon /\ c.z = d.z
    /\ c.nx = d.nx /\ c.ny = d.ny /\ c.dz = d.dz

\* C9: _find_block returns (k-1)*nx*ny + (j-1)*nx + i for i, j, k rounded
\* from lon_norm/dx, (90-lat)/dy and depth/dz, lon_norm being lon + 360 when
\* lon <= 0; two calls with the same inputs return the same id.
C9_BlockFormula ==
    /\ cur_call.done => cur_call.block = ClaimedBlock(cur_call)
    /\ cur_call.done /\ prev_call.done /\ SameInputs(cur_call, prev_call)
          => cur_call.block = prev_call.block

\* C9's case: two calls for lat 0, lon 0, depth 0 on the default grid.
C9_Witness ==
    /\ cur_call.done /\ prev_call.done
    /\ SameInputs(cur_call, prev_call)
    /\ cur_call.lat = 0 /\ cur_call.lon = 0 /\ cur_call.z = 0
    /\ cur_call.nx = 1440 /\ cur_call.ny = 720 /\ cur_call.dz = 25
    /\ cur_call.block = 519841

\* C10: for every longitude in [-180, 180] the normalized longitude x that
\* reaches the index formula lies in [0, 360).
C10_LonNormInHalfOpenRange ==
    cur_call.done /\ Degrees(-180) <= cur_call.lon /\ cur_call.lon <= Degrees(180)
        => 0 <= cur_call.x /\ cur_call.x < Degrees(360)

SameGrid(c, d) == c.nx = d.nx /\ c.ny = d.ny /\ c.dz = d.dz

\* C23: for latitudes in [-90, 90], longitudes in [-180, 180] and depths of
\* at least 0, the column i lies in 1..nx and the row j in 1..ny, and two
\* calls on one grid whose cells (i, j, k) differ return different ids.
C23_BlockIdsUnambiguous ==
    /\ cur_call.done =>
          /\ 1 <= cur_call.i /\ cur_call.i <= cur_call.nx
          /\ 1 <= cur_call.j /\ cur_call.j <= cur_call.ny
    /\ (/\ cur_call.done /\ prev_call.done /\ SameGrid(cur_call, prev_call)
        /\ <<cur_call.i, cur_call.j, cur_call.k>>
              # <<prev_call.i, prev_call.j, prev_call.k>>)
          => cur_call.block # prev_call.block

----------------------------------------------------------------------------
(* The gather stage, under SpecGather: what is claimed of process_event and *)
(* process_many_events, stated on the catalogue, the stations dict and the  *)
(* lines of the two sinks. In a line the source_block is cell 1, the        *)
(* station_block cell 2, the event_number cell 4, the distance in degrees   *)
(* cell 11 and the phase code cell 12.                                      *)

SinkLines(c) == output_file[c].lines

\* The events process_many_events has gone through, the last of them the
\* one that raised when one did.
Passed(i) ==
    \/ batch.pc \in {"loop", "done"} /\ i < batch.e
    \/ batch.pc = "raised" /\ i <= batch.e

\* The events process_event returned from.
Completed(i) == batch.pc \in {"loop", "done", "raised"} /\ i < batch.e

\* process_many_events has been left, by its end or by an exception.
Left == batch.pc \in {"done", "raised"}

HasOrigin(i) == ~events[i].origin.none

ArrivalsOf(i) == IF HasOrigin(i) THEN events[i].origin.arrivals ELSE <<>>

\* The arrivals of the completed events.
CompletedArrivals ==
    {ia \in (1..Len(events)) \X (1..MaxBatch) :
        Completed(ia[1]) /\ ia[2] <= Len(ArrivalsOf(ia[1]))}

ArrivalAt(ia) == ArrivalsOf(ia[1])[ia[2]]

\* The places of sink c that hold a row of arrival ia.
PlacesOf(c, ia) ==
    {n \in 1..Len(SinkLines(c)) : row_source[c][n] = [e |-> ia[1], a |-> ia[2]]}

HasRow(ia) == \E c \in WaveClasses : PlacesOf(c, ia) # {}

KnownStation(ia) == ArrivalAt(ia).station_code \in DOMAIN stations

\* The distance from the origin to the station of an arrival, both on the
\* equator: the difference of their longitudes.
DistanceOf(ia) ==
    Abs(stations[ArrivalAt(ia).station_code].longitude
        - events[ia[1]].origin.longitude)

PType == split(wave_type)[1]

SType == split(wave_type)[2]

RequestedPhase(ia) == ArrivalAt(ia).phase \in {PType, SType}

PassesGates(ia) == KnownStation(ia) /\ DistanceOf(ia) <= Degrees(90)

\* C11: every row written to either sink has a source_block and a
\* station_block that are positive integers (at least 1), whatever origin
\* and station the row was made from.
C11_BlocksPositive ==
    \A c \in WaveClasses : \A n \in 1..Len(SinkLines(c)) :
        SinkLines(c)[n][1] >= 1 /\ SinkLines(c)[n][2] >= 1

\* C12: a row is written for an arrival only if its station is at most 90.0
\* degrees from the origin: of the arrivals with a known station, one that
\* has a row is within 90.0 degrees, and one of a requested phase within
\* 90.0 degrees (exactly 90.0 included) has a row; the distance written in
\* every line is at most 90.0.
C12_DistanceGate ==
    /\ \A ia \in CompletedArrivals :
          KnownStation(ia) =>
             /\ HasRow(ia) => DistanceOf(ia) <= Degrees(90)
             /\ (RequestedPhase(ia) /\ DistanceOf(ia) <= Degrees(90))
                   => HasRow(ia)
    /\ \A c \in WaveClasses : \A n \in 1..Len(SinkLines(c)) :
          SinkLines(c)[n][11] <= Degrees(90)

\* An event with two arrivals of requested phases at known stations: the
\* one at exactly 90.0 degrees has a row, the one at 90.01 has none.
C12_Witness ==
    \E ia \in CompletedArrivals, ib \in CompletedArrivals :
        /\ ia[1] = ib[1]
        /\ KnownStation(ia) /\ RequestedPhase(ia)
        /\ KnownStation(ib) /\ RequestedPhase(ib)
        /\ DistanceOf(ia) = Degrees(90) /\ HasRow(ia)
        /\ DistanceOf(ib) = Degrees(90) + 10 /\ ~HasRow(ib)

\* C13: an arrival that passes the station and the distance gates has
\* exactly one row, in the P sink with phase code 1, when its phase is
\* p_type; exactly one row, in the S sink with phase code 2, when its phase
\* is s_type; and no row when its phase is neither. Every line of the P
\* sink has phase code 1 and every line of the S sink phase code 2.
C13_PhaseDispatch ==
    /\ \A ia \in CompletedArrivals :
          PassesGates(ia) =>
             /\ ArrivalAt(ia).phase = PType =>
                   /\ Cardinality(PlacesOf("P", ia)) = 1
                   /\ PlacesOf("S", ia) = {}
             /\ ArrivalAt(ia).phase = SType =>
                   /\ Cardinality(PlacesOf("S", ia)) = 1
                   /\ PlacesOf("P", ia) = {}
             /\ ~RequestedPhase(ia) => ~HasRow(ia)
    /\ \A n \in 1..Len(SinkLines("P")) : SinkLines("P")[n][12] = 1
    /\ \A n \in 1..Len(SinkLines("S")) : SinkLines("S")[n][12] = 2

\* Three arrivals that pass the gates: one of phase p_type and one of phase
\* s_type, each with its row, and one of another phase.
C13_Witness ==
    \E ia \in CompletedArrivals, ib \in CompletedArrivals,
       ic \in CompletedArrivals :
        /\ PassesGates(ia) /\ PassesGates(ib) /\ PassesGates(ic)
        /\ ArrivalAt(ia).phase = PType /\ PlacesOf("P", ia) # {}
        /\ ArrivalAt(ib).phase = SType /\ PlacesOf("S", ib) # {}
        /\ ~RequestedPhase(ic)

\* The event without the arrivals whose station code the stations dict
\* does not hold.
WithoutUnknown(ev) ==
    IF ev.origin.none THEN ev
    ELSE [ev EXCEPT !.origin.arrivals =
            SelectSeq(@, LAMBDA arr : arr.station_code \in DOMAIN stations)]

\* The rows of event ev that go to sink c.
RowsOfEvent(c, ev) ==
    LET w == for_sink(process_event(ev, stations, DefaultGrid, wave_type,
                                    round_mode).writes, c)
    IN [n \in 1..Len(w) |-> w[n].row]

\* The lines of sink c once the first k of the events evs are gone through.
LinesAfter(c, evs, k) == Flatten([i \in 1..k |-> RowsOfEvent(c, evs[i])])

NumPassed == Cardinality({i \in 1..Len(events) : Passed(i)})

\* C14: an arrival whose station code the stations dict does not hold
\* raises no error and has no row, and the sinks hold what they would hold
\* had the catalogue been without these arrivals: the arrivals after it and
\* the events after its event are processed all the same.
C14_UnknownStationSkipped ==
    /\ batch.pc = "raised" => ~HasOrigin(batch.e)
    /\ \A ia \in CompletedArrivals : HasRow(ia) => KnownStation(ia)
    /\ \A c \in WaveClasses :
          SinkLines(c) =
             LinesAfter(c, [i \in 1..Len(events) |-> WithoutUnknown(events[i])],
                        NumPassed)

\* The batch is done; an event had an arrival of an unknown station, a later
\* arrival of that event has a row, and so has an arrival of a later event.
C14_Witness ==
    /\ batch.pc = "done"
    /\ \E ia \in CompletedArrivals, ib \in CompletedArrivals,
          ic \in CompletedArrivals :
          /\ ~KnownStation(ia)
          /\ ib[1] = ia[1] /\ ib[2] > ia[2] /\ HasRow(ib)
          /\ ic[1] > ia[1] /\ HasRow(ic)

\* C15: an event that fails is skipped and nothing else: the batch does not
\* abort, and once it is over the sinks hold, in order, the rows of every
\* event before and after the failed one.
C15_FailedEventSkipped ==
    /\ batch.pc # "raised"
    /\ batch.pc = "done" =>
          \A c \in WaveClasses : SinkLines(c) = LinesAfter(c, events, Len(events))

\* C16: within each sink, a row that precedes another comes from an earlier
\* event, or from the same event and an earlier arrival of its origin; the
\* rows of the sink are those of the arrivals recorded for them.
C16_OutputOrder ==
    \A c \in WaveClasses :
        /\ Len(row_source[c]) = Len(SinkLines(c))
        /\ \A n \in 1..Len(SinkLines(c)) :
              LET o == events[row_source[c][n].e].origin
              IN SinkLines(c)[n][10] =
                    o.arrivals[row_source[c][n].a].pick_time - o.time
        /\ \A n1 \in 1..Len(row_source[c]), n2 \in 1..Len(row_source[c]) :
              n1 < n2 =>
                 \/ row_source[c][n1].e < row_source[c][n2].e
                 \/ /\ row_source[c][n1].e = row_source[c][n2].e
                    /\ row_source[c][n1].a < row_source[c][n2].a

\* A sink with two rows of one event and then a row of a later event.
C16_Witness ==
    \E c \in WaveClasses :
        \E n \in 1..Len(row_source[c]) :
            /\ n + 2 <= Len(row_source[c])
            /\ row_source[c][n].e = row_source[c][n + 1].e
            /\ row_source[c][n + 1].e < row_source[c][n + 2].e

\* C18: once process_many_events is left, by its end or by an exception
\* raised while an event was processed, both handles it opened are closed.
C18_HandlesClosedOnExit ==
    Left => batch.p_handle = "closed" /\ batch.s_handle = "closed"

\* C19: the rows written for one event, in either sink, all carry the same
\* source_block and the same event_number.
C19_OneBlockPerEvent ==
    \A c \in WaveClasses, d \in WaveClasses :
        \A n \in 1..Len(SinkLines(c)), m \in 1..Len(SinkLines(d)) :
            row_source[c][n].e = row_source[d][m].e =>
               /\ SinkLines(c)[n][1] = SinkLines(d)[m][1]
               /\ SinkLines(c)[n][4] = SinkLines(d)[m][4]

\* An event with two rows for stations of different blocks, and a row of
\* another event with another source_block and another event_number.
C19_Witness ==
    \E c \in WaveClasses, d \in WaveClasses, f \in WaveClasses :
        \E n \in 1..Len(SinkLines(c)), m \in 1..Len(SinkLines(d)),
           o \in 1..Len(SinkLines(f)) :
            /\ row_source[c][n].e = row_source[d][m].e
            /\ SinkLines(c)[n][2] # SinkLines(d)[m][2]
            /\ row_source[f][o].e # row_source[c][n].e
            /\ SinkLines(f)[o][1] # SinkLines(c)[n][1]
            /\ SinkLines(f)[o][4] # SinkLines(c)[n][4]

----------------------------------------------------------------------------
(* Workers, under SpecWorkers: the sequential batch beside one private      *)
(* buffer an event.                                                         *)

AllExtracted == \A i \in 1..Len(buffers) : buffers[i].done

\* The buffers' rows for sink c, the buffers taken in the order of the
\* events.
BufferLines(c) ==
    Flatten([i \in 1..Len(buffers) |->
               [n \in 1..Len(for_sink(buffers[i].writes, c)) |->
                  for_sink(buffers[i].writes, c)[n].row]])

\* C17: once every event is extracted into its buffer and the sequential
\* process_many_events is over, the buffers put one after another in the
\* order of the events are, for each sink, the lines the sequential run
\* wrote.
C17_BuffersMatchSequential ==
    (AllExtracted /\ Left) =>
        \A c \in WaveClasses : BufferLines(c) = SinkLines(c)

----------------------------------------------------------------------------
(* The order of the file sort writes, under SpecSort.                       *)

\* C20: the lines sort writes are in strictly ascending lexicographic order
\* of (source_block, station_block), whatever the order of the input lines.
C20_OutputSorted ==
    Sorted =>
        \A n1 \in 1..Len(OutLines), n2 \in 1..Len(OutLines) :
            n1 < n2 =>
               \/ OutKey(OutLines[n1])[1] < OutKey(OutLines[n2])[1]
               \/ /\ OutKey(OutLines[n1])[1] = OutKey(OutLines[n2])[1]
                  /\ OutKey(OutLines[n1])[2] < OutKey(OutLines[n2])[2]

\* sort wrote the rows of three keys, of which the input held the greatest
\* first and the least last.
C20_Witness ==
    /\ Sorted
    /\ Len(OutLines) = 3
    /\ Len(InLines) = 3
    /\ InKey(InLines[1]) = <<2, 1>>
    /\ InKey(InLines[2]) = <<1, 2>>
    /\ InKey(InLines[3]) = <<1, 1>>

----------------------------------------------------------------------------
(* The station inventory, under SpecStations: what gather merges.           *)

StationsRead == batch.pc # "gather"

\* The lines of the stations file after its header.
CsvLines == Tail(inventory.station_file)

CsvCodes == {CsvLines[n].station_code : n \in 1..Len(CsvLines)}

IscCodes == DOMAIN inventory.isc_stations

\* The record of the last line of the stations file that has the code.
CsvRecord(code) ==
    LET last == CHOOSE n \in 1..Len(CsvLines) :
                   /\ CsvLines[n].station_code = code
                   /\ \A o \in 1..Len(CsvLines) :
                         CsvLines[o].station_code = code => o <= n
    IN Station(CsvLines[last].latitude, CsvLines[last].longitude)

\* C21: in the stations dict gather hands to process_many_events, a code
\* that both sources hold has the record of the ISC stations, merged later,
\* and a code that one source holds has the record of that source; the dict
\* holds no other code.
C21_LaterSourceWins ==
    StationsRead =>
       /\ DOMAIN stations = CsvCodes \cup IscCodes
       /\ \A code \in IscCodes : stations[code] = inventory.isc_stations[code]
       /\ \A code \in CsvCodes \ IscCodes : stations[code] = CsvRecord(code)

\* The merge is done: one code is in both sources with two different
\* records, one in the stations file alone and one in the ISC stations
\* alone.
C21_Witness ==
    /\ StationsRead
    /\ \E code \in CsvCodes \cap IscCodes :
          CsvRecord(code) # inventory.isc_stations[code]
    /\ CsvCodes \ IscCodes # {}
    /\ IscCodes \ CsvCodes # {}

----------------------------------------------------------------------------
(* The frame of the batch, under SpecGather.                                *)

IsPrefix(a, b) == Len(a) <= Len(b) /\ SubSeq(b, 1, Len(a)) = a

\* C22: no step of process_many_events changes the stations dict or the
\* events; a pass of its loop only appends lines to the two sinks, and
\* leaves the files of the other commands as they are.
C22_OnlySinksChange ==
    [][/\ stations' = stations
       /\ events' = events
       /\ batch.pc = "loop" =>
             /\ \A c \in WaveClasses :
                   /\ IsPrefix(output_file[c].lines, output_file'[c].lines)
                   /\ output_file'[c].header = output_file[c].header
             /\ command_vars' = command_vars]_vars

\* The batch is done: rows were written for stations looked up in the dict,
\* a station code the dict lacks was met, and the dict is as it was given.
C22_Witness ==
    /\ batch.pc = "done"
    /\ \E ia \in CompletedArrivals : HasRow(ia)
    /\ \E ia \in CompletedArrivals : ~KnownStation(ia)
    /\ stations = StationTable

====
